---- MODULE Spec2Model ----
(***************************************************************************)
(* The PDF export of the Event-Management frontend: handleExportPDF        *)
(* captures the .content container with html2canvas, cuts the captured     *)
(* canvas into page-high bands, places one band per page of a jsPDF        *)
(* document and saves it.  Two invocations are modelled so that exports    *)
(* may overlap at the capture await.  Lengths in points are kept in        *)
(* hundredths of a point; quotients are kept as exact fractions <<n, d>>.  *)
(***************************************************************************)
EXTENDS Integers, Sequences, FiniteSets, TLC

\* ---------------------------------------------------------------- bounds
MaxWidth == 2
MaxHeight == 4
\* one larger raster, wide enough that a full slice scales to almost a page
WideWidth == 11
TallHeight == 17
\* the pages: fetchData calls of one page visit, and the highest page number
\* the Next button is followed to
MaxCalls == 3
MaxPage == 3

\* the invocations of handleExportPDF that may be in flight
Invocations == {"a", "b"}
\* "util": Utils/exportPDF.js (input passed in); "page": the page-local copy
\* that looks the surface up itself and returns early when it is missing
Variants == {"util", "page"}
None == "none"

\* ------------------------------------------------------ program constants
\* jsPDF "a4" page in portrait, unit pt: 595.28 x 841.89
pdfWidth == 59528
pdfHeight == 84189
padding == 1000

\* ------------------------------------------------------------ arithmetic
\* floor(n / d) for n >= 0, d > 0
Floor(n, d) == n \div d

\* imgWidth = pdfWidth - padding * 2
imgWidth == pdfWidth - padding * 2

\* scale = imgWidth / canvas.width as a fraction of hundredths of a point per
\* pixel; a zero width gives Infinity, written <<1, 0>>
scale(width) == IF width = 0 THEN <<1, 0>> ELSE <<imgWidth, width>>

\* variant: the page height less the padding at top and bottom
pageHeightPxInsidePadding(width) ==
    IF scale(width)[2] = 0 THEN <<0, 1>>
    ELSE <<(pdfHeight - padding * 2) * scale(width)[2], scale(width)[1]>>

\* pageHeightPx = pdfHeight / scale, a fraction of pixels; pdfHeight / Infinity = 0
pageHeightPx(width) ==
    IF scale(width)[2] = 0 THEN <<0, 1>>
    ELSE <<pdfHeight * scale(width)[2], scale(width)[1]>>

\* variant: Math.max where the code has Math.min
MathMax(frac, int) ==
    IF frac[1] >= int * frac[2] THEN frac ELSE <<int, 1>>

\* Math.min of a fraction and an integer, as a fraction
MathMin(frac, int) ==
    IF frac[1] <= int * frac[2] THEN frac ELSE <<int, 1>>

\* variant: the height is rounded up instead of truncated
RoundUpUnsignedLong(frac) == (frac[1] + frac[2] - 1) \div frac[2]

\* assigning a non-negative number to HTMLCanvasElement.height (an unsigned
\* long) truncates it toward zero
ToUnsignedLong(frac) == Floor(frac[1], frac[2])

\* variant: every slice is a full page high, the last one too
SliceHeightFullPage(pageHeight, height, y) == pageHeight[1] \div pageHeight[2]

\* variant: the rows already cut are not subtracted from the height
SliceHeightNoOffset(pageHeight, height, y) ==
    ToUnsignedLong(MathMin(pageHeight, height))

\* pageCanvas.height = Math.min(pageHeightPx, canvas.height - yPos), for the
\* pageHeightPx the geometry computed
SliceHeight(pageHeight, height, y) ==
    ToUnsignedLong(MathMin(pageHeight, height - y))

\* variant: the loop test with the comparison inverted
MoreContentInverted(y, height) == y > height

\* while (yPos < canvas.height)
MoreContent(y, height) == y < height

\* ----------------------------------------------------------------- state
VARIABLES
    pc,          \* position of each invocation in handleExportPDF
    variant,     \* which copy of handleExportPDF the invocation runs
    input,       \* whether document.querySelector(".content") found an element
    canvas,      \* the canvas html2canvas resolved with and its pixel rows
    geometry,    \* the constants imgWidth, scale and pageHeightPx of the invocation
    pdf,         \* the jsPDF document: a sequence of pages, each a sequence of images
    yPos,        \* source row where the next slice starts
    pageCanvas,  \* the temporary canvas of the current slice and the rows drawn on it
    slices,      \* history: the slices cut so far
    bands,       \* history: the page canvases drawn so far
    captures,    \* history: number of html2canvas calls
    saveCalls,   \* history: number of pdf.save calls
    saved,       \* history: the documents handed to pdf.save that it wrote
    added,       \* history: number of classList.add("exporting") calls
    removed,     \* history: number of classList.remove("exporting") calls
    resolved,    \* history: whether html2canvas resolved with a canvas
    thrown,      \* history: the call that threw inside the try block, or None
    logged,      \* history: whether the catch block logged an error
    exporting,   \* document.body.classList contains "exporting"
    running      \* the invocation whose synchronous code is executing, or None

VARIABLES
    Events,      \* the state (useState) of the mounted Events page
    EventsCalls, \* the fetchData calls of the Events page and where each stands
    Attendees,   \* the state (useState) of the mounted Attendees page
    AttendeesCalls, \* its fetchData and fetchSelectedEventData calls
    AuthProvider, \* the state (useState) of AuthProvider: user and error
    PrivateRoute, \* the mounted PrivateRoute, its state and what it rendered
    location,    \* the path the router shows
    AuthCalls,   \* the login, register, logout and checkAuthStatus calls under way
    lastSubmit   \* what the last handleSubmit to finish got back, and the user then

vars == <<pc, variant, input, canvas, geometry, pdf, yPos, pageCanvas, slices, bands,
          captures, saveCalls, saved, added, removed, resolved, thrown, logged,
          exporting, running, Events, EventsCalls, Attendees, AttendeesCalls,
          AuthProvider, PrivateRoute, location, AuthCalls, lastSubmit>>

eventsVars == <<Events, EventsCalls>>
attendeesVars == <<Attendees, AttendeesCalls>>
\* the state of the pages, which an export leaves alone
authVars == <<AuthProvider, PrivateRoute, location, AuthCalls, lastSubmit>>
pages == <<eventsVars, attendeesVars, authVars>>

local == <<canvas, geometry, pdf, yPos, pageCanvas, slices, bands>>
history == <<captures, saveCalls, saved, added, removed, resolved, thrown, logged>>
choice == <<variant, input>>
\* the state of the exports, which the pages' handlers leave alone
exportVars == <<pc, choice, local, history, exporting, running>>

NoCanvas == [width |-> 0, height |-> 0, rows |-> <<>>]
NoPageCanvas == [width |-> 0, height |-> 0, rows |-> <<>>]
NoGeometry == [imgWidth |-> 0, scale |-> <<0, 1>>, pageHeightPx |-> <<0, 1>>]

\* the pixel rows of a freshly captured canvas: row k of the bitmap holds row
\* k of the rendered element, counted from 0
CapturedRows(height) == [k \in 1..height |-> k - 1]

\* the canvases html2canvas may resolve with
Canvases ==
    {[width |-> w, height |-> h, rows |-> CapturedRows(h)] :
        <<w, h>> \in ((0..MaxWidth) \X (0..MaxHeight))
                        \cup {<<WideWidth, TallHeight>>}}

\* the rows of the source canvas that drawImage copies for the source
\* rectangle (0, sy, width, sh): the rectangle is clipped to the canvas
SourceRows(sy, sh, source) ==
    [k \in 1..(IF sy + sh <= source.height THEN sh ELSE source.height - sy) |->
        source.rows[sy + k]]

\* ------------------------------------------------------------- the backend
\* Text is a sequence of characters. The years the YearPicker offers, the
\* year the pages open with (new Date().getFullYear()), and what the backend
\* answers for a year.
Years == {2024, 2025, 2026}
CurrentYear == 2025
perPage == 6

RECURSIVE SumSeq(_)
SumSeq(q) == IF q = <<>> THEN 0 ELSE Head(q) + SumSeq(Tail(q))

\* GET /events/?year: none in 2024, one page and one more in 2025, one in 2026
EventCount(year) ==
    IF year = 2024 THEN 0 ELSE IF year = 2025 THEN perPage + 1 ELSE 1

EventsData(year) ==
    [k \in 1..EventCount(year) |->
        [id |-> (year - 2020) * 10 + k,
         title |-> IF k % 2 = 0 THEN <<"A", "b">> ELSE <<"B", "c">>,
         event_date |-> <<"2", IF year = 2024 THEN "4" ELSE IF year = 2025 THEN "5" ELSE "6">>,
         location |-> IF k = 1 THEN <<"a", " ", "b">> ELSE <<"c">>,
         status |-> <<"o">>]]

\* GET /overview/monthly-ticket-sales/?year
MonthlyTicketSales(year) ==
    [tickets |-> [m \in 1..12 |-> (year + m) % 3], profit |-> year - 2000]

\* GET /overview/daily-event-counts/?year
DailyEventCounts(year) == [event_counts |-> <<year, EventCount(year)>>]

\* ------------------------------------------------------------ Events page
\* String.prototype.toLowerCase, trim and includes
ToLowerCase(str) ==
    [k \in 1..Len(str) |->
        IF str[k] = "A" THEN "a" ELSE IF str[k] = "B" THEN "b" ELSE str[k]]

Trim(str) ==
    LET inked == {k \in 1..Len(str) : str[k] # " "} IN
    IF inked = {} THEN <<>>
    ELSE SubSeq(str, CHOOSE k \in inked : \A m \in inked : k <= m,
                     CHOOSE k \in inked : \A m \in inked : k >= m)

Includes(str, q) ==
    \E k \in 1..(Len(str) - Len(q) + 1) : SubSeq(str, k, k + Len(q) - 1) = q

\* what the user may type into the search bar
Queries == {<<>>, <<" ">>, <<"A">>, <<"b", " ">>, <<"z">>}

\* const pageCount = Math.ceil(filteredEvents.length / perPage)
pageCount(filteredEvents) == (Len(filteredEvents) + perPage - 1) \div perPage

\* the values CustomPagination calls onChange with: the Previous button
\* (disabled on page 1), a numbered item of the MUI Pagination (1..count),
\* the Next button (disabled on the last page)
CustomPagination(count, page) ==
    (IF page = 1 THEN {} ELSE {page - 1})
        \cup (1..count)
        \cup (IF page = count THEN {} ELSE {page + 1})

NoCall == [year |-> 0, pc |-> "idle"]

EventsInit ==
    /\ Events =
          [selectedYear |-> CurrentYear,
           ticketsMonthlyOverview |->
               [seriesData |-> [m \in 1..12 |-> 0],
                xAxisData |-> [m \in 1..12 |-> <<2025, m>>],
                profit |-> 0,
                lastYearTotal |-> 0],
           dailyEventsOverview |-> <<>>,
           events |-> <<>>,
           filteredEvents |-> <<>>,
           page |-> 1,
           query |-> <<>>]
    /\ EventsCalls = [c \in 1..MaxCalls |-> NoCall]

\* --------------------------------------------------------- Attendees page
\* GET /attendees/{id}/?year: the attendees of an event
AttendeesData(id, year) == <<[id |-> id * 10 + 1, ticket_type |-> "general"]>>

NoAttendeesCall == [year |-> 0, pc |-> "idle", selectedEvent |-> 0, event |-> 0]

AttendeesInit ==
    /\ Attendees =
          [mounted |-> FALSE,
           selectedYear |-> CurrentYear,
           events |-> <<>>,
           selectedEvent |-> 0,
           attendees |-> <<>>,
           filteredAttendees |-> <<>>,
           page |-> 1,
           query |-> <<>>]
    /\ AttendeesCalls = [c \in 1..MaxCalls |-> NoAttendeesCall]

\* ------------------------------------------------------- authentication
\* useState(null), and the user object the backend answers with
Null == "null"
User == "user"

NoAuthCall == [fn |-> "none", pc |-> "idle", finally |-> FALSE]
NoSubmit == [fn |-> "none", success |-> "none", user |-> Null]

\* no PrivateRoute is mounted (the path is /auth or matches no route)
Unmounted ==
    [mounted |-> FALSE, isAuthChecked |-> FALSE, checkSettled |-> FALSE,
     rendered |-> "none"]

\* the application as opened at /auth: the Authentication page
AuthInit ==
    /\ AuthProvider = [user |-> Null, error |-> ""]
    /\ PrivateRoute = Unmounted
    /\ location = "/auth"
    /\ AuthCalls = [c \in 1..MaxCalls |-> NoAuthCall]
    /\ lastSubmit = NoSubmit

Init ==
    /\ EventsInit
    /\ AttendeesInit
    /\ AuthInit
    /\ pc = [i \in Invocations |-> "idle"]
    /\ variant = [i \in Invocations |-> "util"]
    /\ input = [i \in Invocations |-> FALSE]
    /\ canvas = [i \in Invocations |-> NoCanvas]
    /\ geometry = [i \in Invocations |-> NoGeometry]
    /\ pdf = [i \in Invocations |-> <<>>]
    /\ yPos = [i \in Invocations |-> 0]
    /\ pageCanvas = [i \in Invocations |-> NoPageCanvas]
    /\ slices = [i \in Invocations |-> <<>>]
    /\ bands = [i \in Invocations |-> <<>>]
    /\ captures = [i \in Invocations |-> 0]
    /\ saveCalls = [i \in Invocations |-> 0]
    /\ saved = [i \in Invocations |-> <<>>]
    /\ added = [i \in Invocations |-> 0]
    /\ removed = [i \in Invocations |-> 0]
    /\ resolved = [i \in Invocations |-> FALSE]
    /\ thrown = [i \in Invocations |-> None]
    /\ logged = [i \in Invocations |-> FALSE]
    /\ exporting = FALSE
    /\ running = None

\* --------------------------------------------------------------- actions
\* The export button's onClick calls handleExportPDF; the event loop runs one
\* handler at a time.
Invoke(i) ==
    /\ running = None
    /\ pc[i] = "idle"
    /\ \E v \in Variants, found \in BOOLEAN :
          /\ variant' = [variant EXCEPT ![i] = v]
          /\ input' = [input EXCEPT ![i] = found]
    /\ pc' = [pc EXCEPT ![i] = "entry"]
    /\ running' = i
    /\ UNCHANGED <<pages, local, history, exporting>>

\* page copy: const input = document.querySelector(".content"); if (!input) return;
\* the util copy has no such test
CheckInput(i) ==
    /\ running = i
    /\ pc[i] = "entry"
    /\ IF variant[i] = "page" /\ ~input[i]
         THEN /\ pc' = [pc EXCEPT ![i] = "done"]
              /\ running' = None
         ELSE /\ pc' = [pc EXCEPT ![i] = "add"]
              /\ UNCHANGED running
    /\ UNCHANGED <<pages, choice, local, history, exporting>>

\* document.body.classList.add("exporting")
AddExporting(i) ==
    /\ running = i
    /\ pc[i] = "add"
    /\ exporting' = TRUE
    /\ added' = [added EXCEPT ![i] = @ + 1]
    /\ pc' = [pc EXCEPT ![i] = "capture"]
    /\ UNCHANGED <<pages, choice, local, captures, saveCalls, saved, removed, resolved,
                   thrown, logged, running>>

\* const canvas = await html2canvas(input, {...}): the call, then the handler
\* yields to the event loop
CallCapture(i) ==
    /\ running = i
    /\ pc[i] = "capture"
    /\ captures' = [captures EXCEPT ![i] = @ + 1]
    /\ pc' = [pc EXCEPT ![i] = "await"]
    /\ running' = None
    /\ UNCHANGED <<pages, choice, local, saveCalls, saved, added, removed, resolved,
                   thrown, logged, exporting>>

\* html2canvas resolves with a canvas of some width and height (both may be
\* zero for an empty element); it cannot resolve without an element
CaptureResolve(i) ==
    /\ running = None
    /\ pc[i] = "await"
    /\ input[i]
    /\ \E c \in Canvases : canvas' = [canvas EXCEPT ![i] = c]
    /\ resolved' = [resolved EXCEPT ![i] = TRUE]
    /\ pc' = [pc EXCEPT ![i] = "geometry"]
    /\ running' = i
    /\ UNCHANGED <<pages, choice, geometry, pdf, yPos, pageCanvas, slices, bands,
                   captures, saveCalls, saved, added, removed, thrown, logged,
                   exporting>>

\* html2canvas rejects: always for a missing element, possibly otherwise
CaptureReject(i) ==
    /\ running = None
    /\ pc[i] = "await"
    /\ thrown' = [thrown EXCEPT ![i] = "html2canvas"]
    /\ pc' = [pc EXCEPT ![i] = "catch"]
    /\ running' = i
    /\ UNCHANGED <<pages, choice, local, captures, saveCalls, saved, added, removed,
                   resolved, logged, exporting>>

\* variant: the document is shared between exports instead of created per
\* call, so an export goes on after the pages another one has built
GeometrySharedPdf(i) ==
    /\ running = i
    /\ pc[i] = "geometry"
    /\ pdf' = [pdf EXCEPT ![i] =
                  IF \E j \in Invocations : j # i /\ pdf[j] # <<>>
                    THEN pdf[CHOOSE j \in Invocations : j # i /\ pdf[j] # <<>>]
                            \o << <<>> >>
                    ELSE << <<>> >>]
    /\ geometry' = [geometry EXCEPT ![i] =
                       [imgWidth |-> imgWidth,
                        scale |-> scale(canvas[i].width),
                        pageHeightPx |-> pageHeightPx(canvas[i].width)]]
    /\ yPos' = [yPos EXCEPT ![i] = 0]
    /\ pc' = [pc EXCEPT ![i] = "while"]
    /\ UNCHANGED <<pages, choice, canvas, pageCanvas, slices, bands, history,
                   exporting, running>>

\* variant: yPos is kept between exports instead of declared per call, so an
\* export starts where another one stopped
GeometrySharedYPos(i) ==
    /\ running = i
    /\ pc[i] = "geometry"
    /\ pdf' = [pdf EXCEPT ![i] = << <<>> >>]
    /\ geometry' = [geometry EXCEPT ![i] =
                       [imgWidth |-> imgWidth,
                        scale |-> scale(canvas[i].width),
                        pageHeightPx |-> pageHeightPx(canvas[i].width)]]
    /\ yPos' = [yPos EXCEPT ![i] =
                   IF \E j \in Invocations : j # i /\ yPos[j] > 0
                     THEN yPos[CHOOSE j \in Invocations : j # i /\ yPos[j] > 0]
                     ELSE 0]
    /\ pc' = [pc EXCEPT ![i] = "while"]
    /\ UNCHANGED <<pages, choice, canvas, pageCanvas, slices, bands, history,
                   exporting, running>>

\* new JsPDF("p", "pt", "a4") starts with one blank page; const imgWidth,
\* scale and pageHeightPx are computed from the page size and canvas.width;
\* let yPos = 0
Geometry(i) ==
    /\ running = i
    /\ pc[i] = "geometry"
    /\ pdf' = [pdf EXCEPT ![i] = << <<>> >>]
    /\ geometry' = [geometry EXCEPT ![i] =
                       [imgWidth |-> imgWidth,
                        scale |-> scale(canvas[i].width),
                        pageHeightPx |-> pageHeightPx(canvas[i].width)]]
    /\ yPos' = [yPos EXCEPT ![i] = 0]
    /\ pc' = [pc EXCEPT ![i] = "while"]
    /\ UNCHANGED <<pages, choice, canvas, pageCanvas, slices, bands, history,
                   exporting, running>>

\* variant: an if where the code has a while, so only the first slice is cut
WhileOnce(i) ==
    /\ running = i
    /\ pc[i] = "while"
    /\ pc' = [pc EXCEPT ![i] =
                IF yPos[i] = 0 /\ MoreContent(yPos[i], canvas[i].height)
                  THEN "cut" ELSE "save"]
    /\ UNCHANGED <<pages, choice, local, history, exporting, running>>

\* while (yPos < canvas.height) ... ; pdf.save follows the loop
While(i) ==
    /\ running = i
    /\ pc[i] = "while"
    /\ pc' = [pc EXCEPT ![i] =
                IF MoreContent(yPos[i], canvas[i].height) THEN "cut" ELSE "save"]
    /\ UNCHANGED <<pages, choice, local, history, exporting, running>>

\* variant: the slice is cut by resizing the captured canvas itself, which
\* clears its bitmap
CutResizesSource(i) ==
    /\ running = i
    /\ pc[i] = "cut"
    /\ LET h == SliceHeight(geometry[i].pageHeightPx, canvas[i].height, yPos[i]) IN
          /\ canvas' = [canvas EXCEPT ![i] =
                           [width |-> @.width, height |-> h,
                            rows |-> [k \in 1..h |-> -1]]]
          /\ pageCanvas' = [pageCanvas EXCEPT ![i] =
                               [width |-> canvas[i].width, height |-> h,
                                rows |-> <<>>]]
          /\ slices' = [slices EXCEPT ![i] =
                           Append(@, [sourceYOffsetPx |-> yPos[i], heightPx |-> h])]
    /\ pc' = [pc EXCEPT ![i] = "draw"]
    /\ UNCHANGED <<pages, choice, geometry, pdf, yPos, bands, history, exporting, running>>

\* pageCanvas = document.createElement("canvas"); its width and height are set
Cut(i) ==
    /\ running = i
    /\ pc[i] = "cut"
    /\ LET h == SliceHeight(geometry[i].pageHeightPx, canvas[i].height, yPos[i]) IN
          /\ pageCanvas' = [pageCanvas EXCEPT ![i] =
                               [width |-> canvas[i].width, height |-> h,
                                rows |-> <<>>]]
          /\ slices' = [slices EXCEPT ![i] =
                           Append(@, [sourceYOffsetPx |-> yPos[i], heightPx |-> h])]
    /\ pc' = [pc EXCEPT ![i] = "draw"]
    /\ UNCHANGED <<pages, choice, canvas, geometry, pdf, yPos, bands, history,
                   exporting, running>>

\* variant: the source rectangle starts at row 0 for every slice
DrawImageFromTop(i) ==
    /\ running = i
    /\ pc[i] = "draw"
    /\ IF canvas[i].width = 0 \/ canvas[i].height = 0
         THEN /\ thrown' = [thrown EXCEPT ![i] = "drawImage"]
              /\ pc' = [pc EXCEPT ![i] = "catch"]
              /\ UNCHANGED <<pageCanvas, bands>>
         ELSE /\ pageCanvas' = [pageCanvas EXCEPT ![i].rows =
                                   SourceRows(0, pageCanvas[i].height,
                                              canvas[i])]
              /\ bands' = [bands EXCEPT ![i] = Append(@, pageCanvas'[i])]
              /\ pc' = [pc EXCEPT ![i] = "addImage"]
              /\ UNCHANGED thrown
    /\ UNCHANGED <<pages, choice, canvas, geometry, pdf, yPos, slices, captures,
                   saveCalls, saved, added, removed, resolved, logged, exporting,
                   running>>

\* ctx.drawImage(canvas, 0, yPos, canvas.width, pageCanvas.height, 0, 0, ...)
\* throws InvalidStateError when the source canvas has a zero dimension
DrawImage(i) ==
    /\ running = i
    /\ pc[i] = "draw"
    /\ IF canvas[i].width = 0 \/ canvas[i].height = 0
         THEN /\ thrown' = [thrown EXCEPT ![i] = "drawImage"]
              /\ pc' = [pc EXCEPT ![i] = "catch"]
              /\ UNCHANGED <<pageCanvas, bands>>
         ELSE /\ pageCanvas' = [pageCanvas EXCEPT ![i].rows =
                                   SourceRows(yPos[i], pageCanvas[i].height,
                                              canvas[i])]
              /\ bands' = [bands EXCEPT ![i] = Append(@, pageCanvas'[i])]
              /\ pc' = [pc EXCEPT ![i] = "addImage"]
              /\ UNCHANGED thrown
    /\ UNCHANGED <<pages, choice, canvas, geometry, pdf, yPos, slices, captures,
                   saveCalls, saved, added, removed, resolved, logged, exporting,
                   running>>

\* the image pdf.addImage places: at (padding, padding), imgWidth wide and
\* pageCanvas.height * scale high, showing the content of pageCanvas, the
\* rows of the current slice
Image(i) ==
    [x |-> padding, y |-> padding, width |-> geometry[i].imgWidth,
     height |-> <<pageCanvas[i].height * geometry[i].scale[1],
                  geometry[i].scale[2]>>,
     sourceYOffsetPx |-> yPos[i], heightPx |-> pageCanvas[i].height,
     rows |-> pageCanvas[i].rows]

\* jsPDF's addImage puts the image on the current page, the one added last;
\* the document has no finished state and takes an image whenever it is called
addImage(doc, image) == [doc EXCEPT ![Len(doc)] = Append(@, image)]

\* variant: the image always lands on the first page
AddImageFirstPage(i) ==
    /\ running = i
    /\ pc[i] = "addImage"
    /\ pdf' = [pdf EXCEPT ![i][1] = Append(@, Image(i))]
    /\ pc' = [pc EXCEPT ![i] = "advance"]
    /\ UNCHANGED <<pages, choice, canvas, geometry, yPos, pageCanvas, slices, bands,
                   history, exporting, running>>

\* variant: the placement is awaited, so the handler yields to the event loop
\* inside the loop
AddImageAwaited(i) ==
    /\ running = i
    /\ pc[i] = "addImage"
    /\ pdf' = [pdf EXCEPT ![i] = addImage(@, Image(i))]
    /\ pc' = [pc EXCEPT ![i] = "advance"]
    /\ running' = None
    /\ UNCHANGED <<pages, choice, canvas, geometry, yPos, pageCanvas, slices, bands,
                   history, exporting>>

\* pdf.addImage(pageCanvas.toDataURL("image/png"), "PNG", padding, padding,
\* imgWidth, pageCanvas.height * scale) puts the image on the current page,
\* the one added last
AddImage(i) ==
    /\ running = i
    /\ pc[i] = "addImage"
    /\ pdf' = [pdf EXCEPT ![i] = addImage(@, Image(i))]
    /\ pc' = [pc EXCEPT ![i] = "advance"]
    /\ UNCHANGED <<pages, choice, canvas, geometry, yPos, pageCanvas, slices, bands,
                   history, exporting, running>>

\* variant: the exception is swallowed inside the loop, which goes on
AddImageIgnored(i) ==
    /\ running = i
    /\ pc[i] = "addImage"
    /\ thrown' = [thrown EXCEPT ![i] = "addImage"]
    /\ pc' = [pc EXCEPT ![i] = "advance"]
    /\ UNCHANGED <<pages, choice, local, captures, saveCalls, saved, added, removed,
                   resolved, logged, exporting, running>>

\* toDataURL (a tainted canvas) or addImage (a rejected image) throws
AddImageThrows(i) ==
    /\ running = i
    /\ pc[i] = "addImage"
    /\ thrown' = [thrown EXCEPT ![i] = "addImage"]
    /\ pc' = [pc EXCEPT ![i] = "catch"]
    /\ UNCHANGED <<pages, choice, local, captures, saveCalls, saved, added, removed,
                   resolved, logged, exporting, running>>

\* variant: a page is added after every band, the last one included
AdvanceAlwaysAddsPage(i) ==
    /\ running = i
    /\ pc[i] = "advance"
    /\ yPos' = [yPos EXCEPT ![i] = @ + pageCanvas[i].height]
    /\ pdf' = [pdf EXCEPT ![i] = Append(@, <<>>)]
    /\ pc' = [pc EXCEPT ![i] = "while"]
    /\ UNCHANGED <<pages, choice, canvas, geometry, pageCanvas, slices, bands, history,
                   exporting, running>>

\* yPos += pageCanvas.height; if (yPos < canvas.height) pdf.addPage();
Advance(i) ==
    /\ running = i
    /\ pc[i] = "advance"
    /\ LET y == yPos[i] + pageCanvas[i].height IN
          /\ yPos' = [yPos EXCEPT ![i] = y]
          /\ pdf' = [pdf EXCEPT ![i] =
                        IF MoreContent(y, canvas[i].height) THEN Append(@, <<>>) ELSE @]
    /\ pc' = [pc EXCEPT ![i] = "while"]
    /\ UNCHANGED <<pages, choice, canvas, geometry, pageCanvas, slices, bands, history,
                   exporting, running>>

\* pdf.save("events-overview.pdf")
Save(i) ==
    /\ running = i
    /\ pc[i] = "save"
    /\ saveCalls' = [saveCalls EXCEPT ![i] = @ + 1]
    /\ saved' = [saved EXCEPT ![i] = Append(@, pdf[i])]
    /\ pc' = [pc EXCEPT ![i] = "finally"]
    /\ UNCHANGED <<pages, choice, local, captures, added, removed, resolved, thrown,
                   logged, exporting, running>>

\* pdf.save throws (the download could not be started)
SaveThrows(i) ==
    /\ running = i
    /\ pc[i] = "save"
    /\ saveCalls' = [saveCalls EXCEPT ![i] = @ + 1]
    /\ thrown' = [thrown EXCEPT ![i] = "save"]
    /\ pc' = [pc EXCEPT ![i] = "catch"]
    /\ UNCHANGED <<pages, choice, local, captures, saved, added, removed, resolved,
                   logged, exporting, running>>

\* variant: the class is removed at the end of the try block only, so a
\* caught error leaves the handler without the removal
CatchReturns(i) ==
    /\ running = i
    /\ pc[i] = "catch"
    /\ logged' = [logged EXCEPT ![i] = TRUE]
    /\ pc' = [pc EXCEPT ![i] = "done"]
    /\ running' = None
    /\ UNCHANGED <<pages, choice, local, captures, saveCalls, saved, added, removed,
                   resolved, thrown, exporting>>

\* catch (err) { console.error("PDF generation failed:", err); }
Catch(i) ==
    /\ running = i
    /\ pc[i] = "catch"
    /\ logged' = [logged EXCEPT ![i] = TRUE]
    /\ pc' = [pc EXCEPT ![i] = "finally"]
    /\ UNCHANGED <<pages, choice, local, captures, saveCalls, saved, added, removed,
                   resolved, thrown, exporting, running>>

\* variant: the finally block removes the class a second time
FinallyRemovesTwice(i) ==
    /\ running = i
    /\ pc[i] = "finally"
    /\ exporting' = FALSE
    /\ removed' = [removed EXCEPT ![i] = @ + 2]
    /\ pc' = [pc EXCEPT ![i] = "done"]
    /\ running' = None
    /\ UNCHANGED <<pages, choice, local, captures, saveCalls, saved, added, resolved,
                   thrown, logged>>

\* finally { document.body.classList.remove("exporting"); } and the promise
\* of the async function is fulfilled
Finally(i) ==
    /\ running = i
    /\ pc[i] = "finally"
    /\ exporting' = FALSE
    /\ removed' = [removed EXCEPT ![i] = @ + 1]
    /\ pc' = [pc EXCEPT ![i] = "done"]
    /\ running' = None
    /\ UNCHANGED <<pages, choice, local, captures, saveCalls, saved, added, resolved,
                   thrown, logged>>

\* every step of an invocation after the click that started it
Step(i) ==
    \/ CheckInput(i) \/ AddExporting(i) \/ CallCapture(i)
    \/ CaptureResolve(i) \/ CaptureReject(i)
    \/ Geometry(i) \/ While(i) \/ Cut(i) \/ DrawImage(i)
    \/ AddImage(i) \/ AddImageThrows(i) \/ Advance(i)
    \/ Save(i) \/ SaveThrows(i) \/ Catch(i) \/ Finally(i)

handleExportPDF(i) == Invoke(i) \/ Step(i)

Next == \E i \in Invocations : handleExportPDF(i)

Spec == Init /\ [][Next]_vars

\* Once called, an invocation's synchronous code runs to completion, and the
\* capture promise is assumed to settle; the click itself is not forced.
FairSpec == Spec /\ \A i \in Invocations : WF_vars(Step(i))

\* ------------------------------------------------------------ Events page
\* everything but the Events page
notEvents == <<exportVars, attendeesVars, authVars>>

\* useEffect(() => { fetchData(new Date().getFullYear()) }, []): the page is
\* mounted and its first fetchData call waits for the ticket sales
Events_useEffect ==
    /\ EventsCalls[1].pc = "idle"
    /\ EventsCalls' = [EventsCalls EXCEPT ![1] = [year |-> CurrentYear, pc |-> "tickets"]]
    /\ UNCHANGED <<Events, notEvents>>

\* onYearChange(year), called by the YearPicker when another year is picked:
\* setSelectedYear(year); setQuery(""); fetchData(year)
Events_onYearChange ==
    /\ EventsCalls[1].pc # "idle"
    /\ \E year \in Years \ {Events.selectedYear}, c \in 1..MaxCalls :
          /\ EventsCalls[c].pc = "idle"
          /\ \A b \in 1..(c - 1) : EventsCalls[b].pc # "idle"
          /\ Events' = [Events EXCEPT !.selectedYear = year, !.query = <<>>]
          /\ EventsCalls' = [EventsCalls EXCEPT ![c] = [year |-> year, pc |-> "tickets"]]
    /\ UNCHANGED notEvents

\* fetchData, first await: both ticket sales requests answered;
\* setTicketsMonthlyOverview, then the daily event counts are requested
Events_fetchData_tickets(c) ==
    /\ EventsCalls[c].pc = "tickets"
    /\ LET year == EventsCalls[c].year
           currentYearRes == MonthlyTicketSales(year)
           previousYearRes == MonthlyTicketSales(year - 1)
       IN  Events' = [Events EXCEPT !.ticketsMonthlyOverview =
                         [seriesData |-> currentYearRes.tickets,
                          xAxisData |-> [m \in 1..12 |-> <<year, m>>],
                          profit |-> currentYearRes.profit,
                          lastYearTotal |-> SumSeq(previousYearRes.tickets)]]
    /\ EventsCalls' = [EventsCalls EXCEPT ![c].pc = "daily"]
    /\ UNCHANGED notEvents

\* fetchData, second await: setDailyEventsOverview, then the events are requested
Events_fetchData_daily(c) ==
    /\ EventsCalls[c].pc = "daily"
    /\ Events' = [Events EXCEPT !.dailyEventsOverview =
                      DailyEventCounts(EventsCalls[c].year).event_counts]
    /\ EventsCalls' = [EventsCalls EXCEPT ![c].pc = "events"]
    /\ UNCHANGED notEvents

\* fetchData, third await: setEvents(eventsRes.data); setFilteredEvents(eventsRes.data)
Events_fetchData_events(c) ==
    /\ EventsCalls[c].pc = "events"
    /\ Events' = [Events EXCEPT !.events = EventsData(EventsCalls[c].year),
                                !.filteredEvents = EventsData(EventsCalls[c].year)]
    /\ EventsCalls' = [EventsCalls EXCEPT ![c].pc = "done"]
    /\ UNCHANGED notEvents

\* a request of fetchData is rejected: .catch((err) => console.error(err))
Events_fetchData_rejected(c) ==
    /\ EventsCalls[c].pc \in {"tickets", "daily", "events"}
    /\ EventsCalls' = [EventsCalls EXCEPT ![c].pc = "failed"]
    /\ UNCHANGED <<Events, notEvents>>

\* SearchBar onChange: setQuery(val)
Events_setQuery ==
    /\ EventsCalls[1].pc # "idle"
    /\ \E val \in Queries \ {Events.query} : Events' = [Events EXCEPT !.query = val]
    /\ UNCHANGED <<EventsCalls, notEvents>>

\* the event matches the normalized query q in one of its four text fields
Matches(event, q) ==
    \/ Includes(ToLowerCase(event.title), q)
    \/ Includes(ToLowerCase(event.event_date), q)
    \/ Includes(ToLowerCase(event.location), q)
    \/ Includes(ToLowerCase(event.status), q)

\* Array.prototype.filter
RECURSIVE Filter(_, _)
Filter(list, q) ==
    IF list = <<>> THEN <<>>
    ELSE (IF Matches(Head(list), q) THEN <<Head(list)>> ELSE <<>>)
            \o Filter(Tail(list), q)

\* filterEvents(), called by the search button and the Enter key
Events_filterEvents ==
    /\ EventsCalls[1].pc # "idle"
    /\ LET q == ToLowerCase(Trim(Events.query)) IN
          Events' = [Events EXCEPT
                        !.filteredEvents =
                            IF q = <<>> THEN Events.events ELSE Filter(Events.events, q),
                        !.page = 1]
    /\ UNCHANGED <<EventsCalls, notEvents>>

\* CustomPagination onChange: setPage(value)
Events_setPage ==
    /\ EventsCalls[1].pc # "idle"
    /\ \E value \in CustomPagination(
                        IF pageCount(Events.filteredEvents) > 0
                          THEN pageCount(Events.filteredEvents) ELSE 1,
                        IF Events.page > 0 THEN Events.page ELSE 1) :
          /\ value <= MaxPage
          /\ Events' = [Events EXCEPT !.page = value]
    /\ UNCHANGED <<EventsCalls, notEvents>>

EventsNext ==
    \/ Events_useEffect
    \/ Events_onYearChange
    \/ \E c \in 1..MaxCalls :
          \/ Events_fetchData_tickets(c)
          \/ Events_fetchData_daily(c)
          \/ Events_fetchData_events(c)
          \/ Events_fetchData_rejected(c)
    \/ Events_setQuery
    \/ Events_filterEvents
    \/ Events_setPage

EventsSpec == Init /\ [][EventsNext]_vars

\* --------------------------------------------------------- Attendees page
\* everything but the Attendees page
notAttendees == <<exportVars, eventsVars, authVars>>

\* The overview charts, which fetchData fills before it asks for the events,
\* are left out of the state: nothing on the page reads them back.
\* the next unused call
FreeCall(c) ==
    /\ AttendeesCalls[c].pc = "idle"
    /\ \A b \in 1..(c - 1) : AttendeesCalls[b].pc # "idle"

\* events[index] of a JavaScript array: the element, or undefined (0)
At(list, index) ==
    IF index >= 0 /\ index < Len(list) THEN list[index + 1].id ELSE 0

\* fetchSelectedEventData(event, year) up to its await: event.id is read for
\* the request, which throws a TypeError for an undefined event
fetchSelectedEventData(event, year) ==
    IF event = 0 THEN [NoAttendeesCall EXCEPT !.pc = "typeError"]
    ELSE [year |-> year, selectedEvent |-> 0, event |-> event, pc |-> "attendees"]

\* useEffect(() => { fetchData(new Date().getFullYear()) }, [])
Attendees_useEffect ==
    /\ ~Attendees.mounted
    /\ Attendees' = [Attendees EXCEPT !.mounted = TRUE]
    /\ AttendeesCalls' = [AttendeesCalls EXCEPT ![1] =
                             [year |-> CurrentYear, pc |-> "overview",
                              selectedEvent |-> Attendees.selectedEvent, event |-> 0]]
    /\ UNCHANGED notAttendees

\* onYearChange(year): setSelectedYear(year); setQuery(""); setPage(1);
\* fetchData(year), which keeps the selectedEvent of the render it was called in
Attendees_onYearChange ==
    /\ Attendees.mounted
    /\ \E year \in Years \ {Attendees.selectedYear}, c \in 1..MaxCalls :
          /\ FreeCall(c)
          /\ Attendees' = [Attendees EXCEPT !.selectedYear = year,
                                            !.query = <<>>, !.page = 1]
          /\ AttendeesCalls' = [AttendeesCalls EXCEPT ![c] =
                                   [year |-> year, pc |-> "overview",
                                    selectedEvent |-> Attendees.selectedEvent,
                                    event |-> 0]]
    /\ UNCHANGED notAttendees

\* fetchData up to its request for the events: five awaits (monthly and daily
\* attendee counts, attendance extremes, monthly no-shows, counts by ticket
\* type), each followed by the set calls of its overview charts
Attendees_fetchData_overview(c) ==
    /\ AttendeesCalls[c].pc = "overview"
    /\ AttendeesCalls' = [AttendeesCalls EXCEPT ![c].pc = "events"]
    /\ UNCHANGED <<Attendees, notAttendees>>

\* fetchData: setEvents(eventsRes.data);
\* await fetchSelectedEventData(eventsRes.data[selectedEvent], year)
Attendees_fetchData_events(c) ==
    /\ AttendeesCalls[c].pc = "events"
    /\ Attendees' = [Attendees EXCEPT !.events = EventsData(AttendeesCalls[c].year)]
    /\ AttendeesCalls' = [AttendeesCalls EXCEPT ![c] =
          fetchSelectedEventData(At(EventsData(@.year), @.selectedEvent), @.year)]
    /\ UNCHANGED notAttendees

\* fetchSelectedEventData after its await: setAttendees, setFilteredAttendees,
\* setQuery(""), setPage(1)
Attendees_fetchSelectedEventData(c) ==
    /\ AttendeesCalls[c].pc = "attendees"
    /\ LET data == AttendeesData(AttendeesCalls[c].event, AttendeesCalls[c].year) IN
          Attendees' = [Attendees EXCEPT !.attendees = data,
                                        !.filteredAttendees = data,
                                        !.query = <<>>, !.page = 1]
    /\ AttendeesCalls' = [AttendeesCalls EXCEPT ![c] =
                             [NoAttendeesCall EXCEPT !.pc = "done"]]
    /\ UNCHANGED notAttendees

\* a request is rejected: fetchData's promise is rejected and logged by
\* .catch(console.error); a button's handler ends with the rejection
Attendees_rejected(c) ==
    /\ AttendeesCalls[c].pc \in {"overview", "events", "attendees"}
    /\ AttendeesCalls' = [AttendeesCalls EXCEPT ![c] =
                             [NoAttendeesCall EXCEPT !.pc = "failed"]]
    /\ UNCHANGED <<Attendees, notAttendees>>

\* the previous-event button, rendered when events[selectedEvent] exists and
\* disabled when selectedEvent <= 0: setSelectedEvent(selectedEvent - 1);
\* await fetchSelectedEventData(events[selectedEvent - 1], selectedYear)
Attendees_previousEvent ==
    /\ At(Attendees.events, Attendees.selectedEvent) # 0
    /\ ~(Attendees.selectedEvent <= 0)
    /\ \E c \in 1..MaxCalls :
          /\ FreeCall(c)
          /\ AttendeesCalls' = [AttendeesCalls EXCEPT ![c] =
                fetchSelectedEventData(
                    At(Attendees.events, Attendees.selectedEvent - 1),
                    Attendees.selectedYear)]
    /\ Attendees' = [Attendees EXCEPT !.selectedEvent = @ - 1]
    /\ UNCHANGED notAttendees

\* the next-event button, rendered when events[selectedEvent] exists and
\* disabled when selectedEvent >= events.length:
\* setSelectedEvent(selectedEvent + 1);
\* await fetchSelectedEventData(events[selectedEvent + 1], selectedYear)
Attendees_nextEvent ==
    /\ At(Attendees.events, Attendees.selectedEvent) # 0
    /\ ~(Attendees.selectedEvent >= Len(Attendees.events))
    /\ \E c \in 1..MaxCalls :
          /\ FreeCall(c)
          /\ AttendeesCalls' = [AttendeesCalls EXCEPT ![c] =
                fetchSelectedEventData(
                    At(Attendees.events, Attendees.selectedEvent + 1),
                    Attendees.selectedYear)]
    /\ Attendees' = [Attendees EXCEPT !.selectedEvent = @ + 1]
    /\ UNCHANGED notAttendees

AttendeesNext ==
    \/ Attendees_useEffect
    \/ Attendees_onYearChange
    \/ \E c \in 1..MaxCalls :
          \/ Attendees_fetchData_overview(c)
          \/ Attendees_fetchData_events(c)
          \/ Attendees_fetchSelectedEventData(c)
          \/ Attendees_rejected(c)
    \/ Attendees_previousEvent
    \/ Attendees_nextEvent

AttendeesSpec == Init /\ [][AttendeesNext]_vars

\* ------------------------------------------------------- authentication
\* everything but the authentication state
notAuth == <<exportVars, eventsVars, attendeesVars>>

\* a render that does not wait for the check
PrivateRouteRenderUnchecked(isAuthChecked, user) ==
    IF user = Null THEN "null" ELSE "Outlet"

\* PrivateRoute's render: null until the check is done, then Navigate to
\* /auth without a user, the Outlet with one
PrivateRouteRender(isAuthChecked, user) ==
    IF ~isAuthChecked THEN "null"
    ELSE IF user = Null THEN "Navigate"
    ELSE "Outlet"

\* a PrivateRoute that has just been mounted
Mounted ==
    [mounted |-> TRUE, isAuthChecked |-> FALSE, checkSettled |-> FALSE,
     rendered |-> "null"]

\* the checkAuthStatus call of PrivateRoute's effect, whose finally callback
\* sets isAuthChecked
EffectCall == [fn |-> "PrivateRoute", pc |-> "check", finally |-> TRUE]

\* the finally callbacks of an unmounted PrivateRoute no longer set its state
ClearFinally(calls) == [c \in DOMAIN calls |-> [calls[c] EXCEPT !.finally = FALSE]]

\* The render that follows the set calls and navigate calls of one handler
\* (React applies them together): auth is the new state of AuthProvider,
\* changed tells whether its context value is a new one, calls the calls
\* under way, loc the new path, route the PrivateRoute with its new state,
\* and slot the place of a call that has just returned. A protected path
\* mounts PrivateRoute if it is not mounted; PrivateRoute renders; Navigate
\* leads to /auth; the effect (dependencies auth and isAuthChecked) calls
\* checkAuthStatus while isAuthChecked is false.
Commit(auth, changed, calls, loc, route, slot) ==
    LET r == IF route.mounted THEN route ELSE Mounted
        out == PrivateRouteRender(r.isAuthChecked, auth.user)
    IN  IF loc # "/dashboard"
          THEN [location |-> loc, PrivateRoute |-> Unmounted,
                AuthCalls |-> ClearFinally(calls)]
        ELSE IF out = "Navigate"
          THEN [location |-> "/auth", PrivateRoute |-> Unmounted,
                AuthCalls |-> ClearFinally(calls)]
        ELSE [location |-> loc,
              PrivateRoute |-> [r EXCEPT !.rendered = out],
              AuthCalls |-> IF ~r.isAuthChecked /\ (~route.mounted \/ changed)
                              THEN [calls EXCEPT ![slot] = EffectCall]
                              ELSE calls]

\* the handler's assignments, and the render that follows them
Rendered(auth, changed, calls, loc, route, slot) ==
    LET next == Commit(auth, changed, calls, loc, route, slot) IN
        /\ AuthProvider' = auth
        /\ location' = next.location
        /\ PrivateRoute' = next.PrivateRoute
        /\ AuthCalls' = next.AuthCalls

\* the next unused place for a call
FreeAuthCall(c) ==
    /\ AuthCalls[c].pc = "idle"
    /\ \A b \in 1..(c - 1) : AuthCalls[b].pc # "idle"

\* the user opens or reloads the application at a protected path or at /auth:
\* every component starts anew and the requests under way are dropped
Auth_load ==
    /\ \E path \in {"/dashboard", "/auth"} :
          Rendered([user |-> Null, error |-> ""], FALSE,
                   [c \in 1..MaxCalls |-> NoAuthCall], path, Unmounted, 1)
    /\ lastSubmit' = NoSubmit
    /\ UNCHANGED notAuth

\* Authentication's handleSubmit up to its await: login(info) or
\* register(info), each up to its POST
Authentication_handleSubmit ==
    /\ location = "/auth"
    /\ \E isSignIn \in BOOLEAN, c \in 1..MaxCalls :
          /\ FreeAuthCall(c)
          /\ AuthCalls' = [AuthCalls EXCEPT ![c] =
                IF isSignIn
                  THEN [fn |-> "login", pc |-> "login", finally |-> FALSE]
                  ELSE [fn |-> "register", pc |-> "register", finally |-> FALSE]]
    /\ UNCHANGED <<AuthProvider, PrivateRoute, location, lastSubmit, notAuth>>

\* register: POST /register/ answered; await login(credentials), up to its POST
Auth_register_resolved(c) ==
    /\ AuthCalls[c].pc = "register"
    /\ AuthCalls' = [AuthCalls EXCEPT ![c].pc = "login"]
    /\ UNCHANGED <<AuthProvider, PrivateRoute, location, lastSubmit, notAuth>>

\* register: POST /register/ rejected; setError, return false; handleSubmit
\* does not navigate
Auth_register_rejected(c) ==
    /\ AuthCalls[c].pc = "register"
    /\ lastSubmit' = [fn |-> "register", success |-> "false",
                      user |-> AuthProvider.user]
    /\ LET auth == [AuthProvider EXCEPT !.error = "Failed to create account."] IN
          Rendered(auth, auth # AuthProvider, [AuthCalls EXCEPT ![c] = NoAuthCall],
                   location, PrivateRoute, c)
    /\ UNCHANGED notAuth

\* login: POST /login/ answered; await checkAuthStatus(), up to its GET
Auth_login_resolved(c) ==
    /\ AuthCalls[c].pc = "login"
    /\ AuthCalls' = [AuthCalls EXCEPT ![c].pc = "check"]
    /\ UNCHANGED <<AuthProvider, PrivateRoute, location, lastSubmit, notAuth>>

\* login: POST /login/ rejected; setError, return false. Called by
\* handleSubmit, success is false; called by register, register goes on to
\* return true and handleSubmit navigates to /dashboard
Auth_login_rejected(c) ==
    /\ AuthCalls[c].pc = "login"
    /\ lastSubmit' = [fn |-> AuthCalls[c].fn,
                      success |-> IF AuthCalls[c].fn = "register" THEN "true" ELSE "false",
                      user |-> AuthProvider.user]
    /\ LET auth == [AuthProvider EXCEPT
                       !.error = "Authentication failed. Please check your credentials."]
       IN  Rendered(auth, auth # AuthProvider, [AuthCalls EXCEPT ![c] = NoAuthCall],
                   IF AuthCalls[c].fn = "register" THEN "/dashboard" ELSE location,
                   PrivateRoute, c)
    /\ UNCHANGED notAuth

\* checkAuthStatus after its await: setUser(data), where data is res.data or,
\* in the catch block, null. Then its caller goes on: login returns true
\* (and register after it) and handleSubmit navigates to /dashboard; the
\* effect's finally callback sets isAuthChecked.
checkAuthStatus(c, data) ==
    /\ lastSubmit' =
          IF AuthCalls[c].fn = "PrivateRoute" THEN lastSubmit
          ELSE [fn |-> AuthCalls[c].fn, success |-> "true", user |-> data]
    /\ Rendered([AuthProvider EXCEPT !.user = data],
                data # Null \/ AuthProvider.user # Null,
                [AuthCalls EXCEPT ![c] = NoAuthCall],
                IF AuthCalls[c].fn = "PrivateRoute" THEN location ELSE "/dashboard",
                IF AuthCalls[c].finally
                  THEN [PrivateRoute EXCEPT !.isAuthChecked = TRUE,
                                            !.checkSettled = TRUE]
                  ELSE PrivateRoute,
                c)
    /\ UNCHANGED notAuth

\* GET /check_auth_status/ answered with the user
Auth_checkAuthStatus_resolved(c) ==
    /\ AuthCalls[c].pc = "check"
    /\ checkAuthStatus(c, User)

\* GET /check_auth_status/ rejected
Auth_checkAuthStatus_rejected(c) ==
    /\ AuthCalls[c].pc = "check"
    /\ checkAuthStatus(c, Null)

\* the Sidebar of a protected page: auth.logout().then(() => navigate("/login")),
\* up to the POST
Sidebar_logout ==
    /\ PrivateRoute.rendered = "Outlet"
    /\ \E c \in 1..MaxCalls :
          /\ FreeAuthCall(c)
          /\ AuthCalls' = [AuthCalls EXCEPT ![c] =
                              [fn |-> "logout", pc |-> "logout", finally |-> FALSE]]
    /\ UNCHANGED <<AuthProvider, PrivateRoute, location, lastSubmit, notAuth>>

\* logout: POST /logout/ answered; setUser(null); then navigate("/login"),
\* a path no route matches
Auth_logout_resolved(c) ==
    /\ AuthCalls[c].pc = "logout"
    /\ Rendered([AuthProvider EXCEPT !.user = Null], AuthProvider.user # Null,
                [AuthCalls EXCEPT ![c] = NoAuthCall], "/login", PrivateRoute, c)
    /\ UNCHANGED <<lastSubmit, notAuth>>

\* logout: POST /logout/ rejected; setError; then navigate("/login")
Auth_logout_rejected(c) ==
    /\ AuthCalls[c].pc = "logout"
    /\ LET auth == [AuthProvider EXCEPT !.error = "Logout failed. Please try again."] IN
          Rendered(auth, auth # AuthProvider, [AuthCalls EXCEPT ![c] = NoAuthCall],
                   "/login", PrivateRoute, c)
    /\ UNCHANGED <<lastSubmit, notAuth>>

AuthNext ==
    \/ Auth_load
    \/ Authentication_handleSubmit
    \/ Sidebar_logout
    \/ \E c \in 1..MaxCalls :
          \/ Auth_register_resolved(c)
          \/ Auth_register_rejected(c)
          \/ Auth_login_resolved(c)
          \/ Auth_login_rejected(c)
          \/ Auth_checkAuthStatus_resolved(c)
          \/ Auth_checkAuthStatus_rejected(c)
          \/ Auth_logout_resolved(c)
          \/ Auth_logout_rejected(c)

AuthSpec == Init /\ [][AuthNext]_vars

\* ------------------------------------------------------- claim vocabulary
\* the slicing loop of invocation i ran to its end (pdf.save is next or was called)
LoopCompleted(i) == pc[i] = "save" \/ saveCalls[i] > 0

\* sum of the heights of a sequence of slices
RECURSIVE SumHeights(_)
SumHeights(ss) ==
    IF ss = <<>> THEN 0 ELSE ss[1].heightPx + SumHeights(Tail(ss))

\* paperHeight / scale as the exact fraction num / den, for a positive width
GeomNum(i) == pdfHeight * canvas[i].width
GeomDen == pdfWidth - 2 * padding
\* that quotient truncated to whole pixels
GeomPx(i) == GeomNum(i) \div GeomDen

\* ------------------------------------------------------------------- C1
\* C1 as stated: a completed slicing loop over a raster of height > 0 with
\* pageContentHeightPx = paperHeight / scale > 0 has emitted exactly
\* ceil(height / pageContentHeightPx) slices.
C1_SliceCountExact ==
    \A i \in Invocations :
        (LoopCompleted(i) /\ canvas[i].height > 0 /\ GeomNum(i) > 0)
            => Len(slices[i]) * GeomNum(i) >= canvas[i].height * GeomDen
               /\ (Len(slices[i]) - 1) * GeomNum(i) < canvas[i].height * GeomDen

\* C1 amended: a completed slicing loop over a raster of height > 0 has
\* emitted exactly ceil(height / p) slices, where p is paperHeight / scale
\* truncated to whole pixels (the height a full slice canvas takes).
C1_SliceCountTruncated ==
    \A i \in Invocations :
        (LoopCompleted(i) /\ canvas[i].height > 0 /\ GeomNum(i) > 0)
            => /\ GeomPx(i) > 0
               /\ Len(slices[i]) = (canvas[i].height + GeomPx(i) - 1) \div GeomPx(i)

\* a completed loop whose slice count differs from ceil(height / (paperHeight / scale))
C1_Witness ==
    \E i \in Invocations :
        /\ LoopCompleted(i) /\ canvas[i].height > 0 /\ GeomNum(i) > 0
        /\ Len(slices[i]) >= 3
        /\ (Len(slices[i]) - 1) * GeomNum(i) >= canvas[i].height * GeomDen

\* ------------------------------------------------------------------- C2
\* C2: the slices of an export are contiguous from offset 0 (each starts where
\* the previous one ends) and, once the loop has completed, their heights sum
\* to the raster height.
C2_SlicesPartition ==
    \A i \in Invocations :
        /\ slices[i] # <<>> => slices[i][1].sourceYOffsetPx = 0
        /\ \A k \in 1..(Len(slices[i]) - 1) :
              slices[i][k + 1].sourceYOffsetPx
                 = slices[i][k].sourceYOffsetPx + slices[i][k].heightPx
        /\ LoopCompleted(i) => SumHeights(slices[i]) = canvas[i].height

\* a completed loop that cut at least two slices, the last one a remainder
C2_Witness ==
    \E i \in Invocations :
        /\ LoopCompleted(i)
        /\ Len(slices[i]) >= 2
        /\ slices[i][Len(slices[i])].heightPx < slices[i][1].heightPx

\* ------------------------------------------------------------------- C3
\* C3 as stated: after a completed loop every slice but the last is exactly
\* paperHeight / scale high and the last is height - (count - 1) * paperHeight / scale.
C3_SliceHeightsExact ==
    \A i \in Invocations :
        (LoopCompleted(i) /\ slices[i] # <<>>) =>
            LET n == Len(slices[i]) IN
            /\ \A k \in 1..(n - 1) : slices[i][k].heightPx * GeomDen = GeomNum(i)
            /\ slices[i][n].heightPx * GeomDen
                  = canvas[i].height * GeomDen - (n - 1) * GeomNum(i)

\* C3 amended: after a completed loop every slice but the last is p pixels
\* high and the last is height - (count - 1) * p, where p is paperHeight / scale
\* truncated to whole pixels.
C3_SliceHeightsTruncated ==
    \A i \in Invocations :
        (LoopCompleted(i) /\ slices[i] # <<>>) =>
            LET n == Len(slices[i]) IN
            /\ \A k \in 1..(n - 1) : slices[i][k].heightPx = GeomPx(i)
            /\ slices[i][n].heightPx = canvas[i].height - (n - 1) * GeomPx(i)
            /\ slices[i][n].heightPx <= GeomPx(i)

\* a completed loop with a full slice of two rows and a shorter last one,
\* where paperHeight / scale is not a whole number
C3_Witness ==
    \E i \in Invocations :
        /\ LoopCompleted(i)
        /\ Len(slices[i]) = 2
        /\ slices[i][1].heightPx = 2 /\ slices[i][2].heightPx = 1
        /\ GeomPx(i) * GeomDen < GeomNum(i)

\* ------------------------------------------------------------------- C4
\* C4: when an export reaches the save step, the document has as many pages
\* as slices were emitted.
C4_PagesEqualSlices ==
    \A i \in Invocations :
        pc[i] = "save" => Len(pdf[i]) = Len(slices[i])

\* ------------------------------------------------------------------- C5
\* C5: the k-th band placed is on page k and is the band of the k-th slice,
\* so the bands on the pages are in increasing source offset.
C5_BandsInSliceOrder ==
    \A i \in Invocations :
        /\ \A k \in 1..Len(pdf[i]) :
              /\ Len(pdf[i][k]) <= 1
              /\ \A m \in 1..Len(pdf[i][k]) :
                    /\ k <= Len(slices[i])
                    /\ pdf[i][k][m].sourceYOffsetPx = slices[i][k].sourceYOffsetPx
                    /\ pdf[i][k][m].heightPx = slices[i][k].heightPx
        /\ \A d \in 1..Len(saved[i]) :
              /\ \A k \in 1..Len(slices[i]) :
                    /\ k <= Len(saved[i][d])
                    /\ Len(saved[i][d][k]) = 1
                    /\ saved[i][d][k][1].sourceYOffsetPx = slices[i][k].sourceYOffsetPx
                    /\ saved[i][d][k][1].heightPx = slices[i][k].heightPx
              /\ \A k, l \in 1..Len(saved[i][d]) :
                    (k < l /\ saved[i][d][k] # <<>> /\ saved[i][d][l] # <<>>) =>
                       saved[i][d][k][1].sourceYOffsetPx
                          < saved[i][d][l][1].sourceYOffsetPx

\* a saved document of three pages
C5_Witness ==
    \E i \in Invocations :
        /\ Len(saved[i]) = 1
        /\ Len(saved[i][1]) = 3
        /\ saved[i][1][3] # <<>>

\* ------------------------------------------------------------------- C6
\* C6: an invocation that set the exporting indicator finishes with the
\* indicator cleared and its removal done, and (the capture promise settling)
\* every invocation that set it does finish.
C6_IndicatorReleased ==
    /\ [][\A i \in Invocations :
             (pc[i] # "done" /\ pc'[i] = "done" /\ added[i] > 0)
                => (~exporting' /\ removed'[i] = added'[i])]_vars
    /\ \A i \in Invocations :
          (added[i] > removed[i]) ~> (pc[i] = "done" /\ removed[i] = added[i])

\* an invocation whose addImage threw has finished and the class is off
C6_Witness ==
    \E i \in Invocations :
        /\ pc[i] = "done" /\ thrown[i] = "addImage"
        /\ added[i] = 1 /\ removed[i] = 1 /\ ~exporting

\* ------------------------------------------------------------------- C7
\* C7: an invocation calls pdf.save at most once: once when nothing threw,
\* never when html2canvas, drawImage or addImage threw; whatever threw was
\* caught and logged, and nothing is retried (one capture, each slice cut once
\* at a larger offset than the one before).
C7_SaveOnceOrNever ==
    \A i \in Invocations :
        /\ saveCalls[i] <= 1 /\ captures[i] <= 1
        /\ thrown[i] \in {"html2canvas", "drawImage", "addImage"}
              => saveCalls[i] = 0 /\ saved[i] = <<>>
        /\ (pc[i] = "done" /\ added[i] > 0 /\ thrown[i] = None)
              => saveCalls[i] = 1 /\ Len(saved[i]) = 1
        /\ (pc[i] = "done" /\ thrown[i] # None) => logged[i]
        /\ thrown[i] # None => pc[i] \in {"catch", "finally", "done"}
        /\ \A k \in 1..(Len(slices[i]) - 1) :
              slices[i][k].sourceYOffsetPx < slices[i][k + 1].sourceYOffsetPx

\* one invocation saved its document, the other failed in addImage after a
\* first band was placed and saved nothing
C7_Witness ==
    \E i, j \in Invocations :
        /\ pc[i] = "done" /\ thrown[i] = None /\ saveCalls[i] = 1
        /\ Len(saved[i][1]) >= 2
        /\ pc[j] = "done" /\ thrown[j] = "addImage" /\ Len(bands[j]) = 2
        /\ saveCalls[j] = 0 /\ logged[j]

\* ------------------------------------------------------------------- C8
\* C8 as stated: every finished invocation has set the exporting indicator
\* exactly once and cleared it exactly once.
C8_ToggledOnceEach ==
    \A i \in Invocations :
        pc[i] = "done" => added[i] = 1 /\ removed[i] = 1

\* C8 amended: an invocation sets the indicator at most once and clears it
\* only after setting it; a finished invocation has set and cleared it exactly
\* once each, except the page-local copy called with the surface missing,
\* which returns before it sets the indicator and never sets or clears it.
C8_ToggledOnceUnlessEarlyReturn ==
    \A i \in Invocations :
        /\ added[i] <= 1 /\ removed[i] <= added[i]
        /\ pc[i] = "done" =>
              IF variant[i] = "page" /\ ~input[i]
                THEN added[i] = 0 /\ removed[i] = 0
                ELSE added[i] = 1 /\ removed[i] = 1

\* both copies were called with the surface missing: the page-local one
\* never touched the indicator, the util one set and cleared it once
C8_Witness ==
    \E i, j \in Invocations :
        /\ pc[i] = "done" /\ variant[i] = "page" /\ ~input[i] /\ added[i] = 0
        /\ pc[j] = "done" /\ variant[j] = "util" /\ ~input[j]
        /\ added[j] = 1 /\ removed[j] = 1

\* ------------------------------------------------------------------- C9
\* C9: a finished invocation whose capture yielded no raster (surface missing,
\* or a captured canvas of zero height) created no document, made no save
\* call, and cleared the indicator as often as it set it.
C9_NoRasterNoSave ==
    \A i \in Invocations :
        (pc[i] = "done" /\ (~input[i] \/ (resolved[i] /\ canvas[i].height = 0)))
            => pdf[i] = <<>> /\ saveCalls[i] = 0 /\ removed[i] = added[i]

\* ------------------------------------------------------------------ C10
\* number of pages of the document of invocation i that hold a band
Placed(i) == Cardinality({k \in 1..Len(pdf[i]) : pdf[i][k] # <<>>})

RECURSIVE DocImages(_)
DocImages(doc) == IF doc = <<>> THEN <<>> ELSE doc[1] \o DocImages(Tail(doc))

\* the set of source rows the images of a document show
ImageRows(doc) ==
    UNION {{DocImages(doc)[m].rows[r] : r \in 1..Len(DocImages(doc)[m].rows)} :
              m \in 1..Len(DocImages(doc))}

\* C11: whenever pdf.save is about to be called or has been called, the
\* document handed to it shows every row 0..height-1 of the captured canvas.
C11_SavedDocumentComplete ==
    \A i \in Invocations :
        /\ pc[i] = "save" => ImageRows(pdf[i]) = 0..(canvas[i].height - 1)
        /\ \A d \in 1..Len(saved[i]) :
              ImageRows(saved[i][d]) = 0..(canvas[i].height - 1)

\* the document of the tall raster, two pages, has been saved
C11_Witness ==
    \E i \in Invocations :
        /\ Len(saved[i]) = 1
        /\ canvas[i].height = TallHeight
        /\ Len(saved[i][1]) = 2

\* ------------------------------------------------------------------ C12
\* C12: two exports of the same raster (the page size and margin are
\* constants) save identical documents: the same pages with the same bands
\* at the same position and size.
C12_SameRasterSameDocument ==
    \A i, j \in Invocations :
        (saved[i] # <<>> /\ saved[j] # <<>> /\ canvas[i] = canvas[j])
            => saved[i] = saved[j]

\* both exports saved the three-page document of the same raster
C12_Witness ==
    \E i, j \in Invocations :
        /\ i # j
        /\ saved[i] # <<>> /\ saved[j] # <<>>
        /\ canvas[i] = canvas[j]
        /\ Len(saved[i][1]) = 3

\* ------------------------------------------------------------------ C13
\* C13: while an invocation has set the exporting indicator and not yet
\* cleared it itself, the indicator is set.
C13_IndicatorHeldWhileInProgress ==
    \A i \in Invocations : added[i] > removed[i] => exporting

\* ------------------------------------------------------------------ C14
\* C14: an export whose captured raster has a width that is not positive
\* (the page size and margin are positive constants) fails in the geometry
\* step, before any slice is cut, and saves nothing.
C14_InvalidGeometryRejected ==
    \A i \in Invocations :
        (pc[i] = "done" /\ resolved[i] /\ canvas[i].width <= 0)
            => thrown[i] = "geometry" /\ slices[i] = <<>> /\ saveCalls[i] = 0

\* ------------------------------------------------------------------ C15
\* C15: an export whose captured raster has height <= 0, or whose
\* pageHeightPx is <= 0, fails in the slicing step, before any band is drawn,
\* and saves nothing.
C15_InvalidInputRejected ==
    \A i \in Invocations :
        (pc[i] = "done" /\ resolved[i]
            /\ (canvas[i].height <= 0 \/ geometry[i].pageHeightPx[1] <= 0))
            => thrown[i] = "slicing" /\ bands[i] = <<>> /\ saveCalls[i] = 0

\* ------------------------------------------------------------------ C16
\* the positions inside the slicing loop
InLoop(i) == pc[i] \in {"while", "cut", "draw", "addImage", "advance"}

\* C16: for a raster of width > 0 and height > 0 every slice cut is at least
\* one row high, every pass of the loop moves yPos up, yPos never passes the
\* raster height and equals it when the loop has completed; and the loop is
\* always left (to pdf.save, or to the catch block).
C16_LoopTerminates ==
    /\ [](\A i \in Invocations :
            (resolved[i] /\ canvas[i].width > 0 /\ canvas[i].height > 0) =>
               /\ \A k \in 1..Len(slices[i]) : slices[i][k].heightPx >= 1
               /\ yPos[i] <= canvas[i].height
               /\ LoopCompleted(i) => yPos[i] = canvas[i].height)
    /\ [][\A i \in Invocations :
             (pc[i] = "advance" /\ pc'[i] = "while") => yPos'[i] > yPos[i]]_vars
    /\ \A i \in Invocations : InLoop(i) ~> ~InLoop(i)

\* the loop over the tall raster has completed with yPos at its height
C16_Witness ==
    \E i \in Invocations :
        /\ pc[i] = "save"
        /\ canvas[i].height = TallHeight
        /\ Len(slices[i]) = 2
        /\ yPos[i] = canvas[i].height

\* ------------------------------------------------------------------ C17
\* C17: every page of a saved document holds exactly one band, placed at
\* (margin, margin), contentWidth wide and heightPx * scale high, and page k
\* holds the k-th band.
C17_OneBandPerPage ==
    \A i \in Invocations : \A d \in 1..Len(saved[i]) :
        \A k \in 1..Len(saved[i][d]) :
            /\ Len(saved[i][d][k]) = 1
            /\ saved[i][d][k][1].x = padding
            /\ saved[i][d][k][1].y = padding
            /\ saved[i][d][k][1].width = GeomDen
            /\ saved[i][d][k][1].height
                  = <<saved[i][d][k][1].heightPx * GeomDen, canvas[i].width>>
            /\ saved[i][d][k][1].heightPx = slices[i][k].heightPx

\* ------------------------------------------------------------------ C18
\* C18: once computed, the geometry of an export is
\* imgWidth = pdfWidth - 2 * padding, scale = imgWidth / canvas.width and
\* pageHeightPx = pdfHeight / scale (0 for a zero width, where scale is
\* Infinity), and it does not change for the rest of the export.
C18_GeometryFixed ==
    /\ [](\A i \in Invocations :
            pdf[i] # <<>> =>
               /\ geometry[i].imgWidth = pdfWidth - 2 * padding
               /\ canvas[i].width > 0 =>
                     /\ geometry[i].scale = <<pdfWidth - 2 * padding, canvas[i].width>>
                     /\ geometry[i].pageHeightPx
                           = <<pdfHeight * geometry[i].scale[2], geometry[i].scale[1]>>
               /\ canvas[i].width = 0 =>
                     /\ geometry[i].scale[2] = 0
                     /\ geometry[i].pageHeightPx[1] = 0)
    /\ [][\A i \in Invocations :
             pdf[i] # <<>> => geometry'[i] = geometry[i] /\ canvas'[i] = canvas[i]]_vars

\* the second slice of the tall raster is being cut with the geometry
\* computed before the first
C18_Witness ==
    \E i \in Invocations :
        /\ pc[i] = "cut" /\ Len(slices[i]) = 1
        /\ canvas[i].width = WideWidth
        /\ geometry[i].pageHeightPx = <<pdfHeight * WideWidth, pdfWidth - 2 * padding>>

\* ------------------------------------------------------------------ C19
\* C19: every band placed on a page ends at or above the bottom edge of the
\* page: margin + heightPx * scale <= paperHeight.
C19_BandFitsPage ==
    \A i \in Invocations :
        \A k \in 1..Len(pdf[i]) : \A m \in 1..Len(pdf[i][k]) :
            pdf[i][k][m].y * pdf[i][k][m].height[2] + pdf[i][k][m].height[1]
               <= pdfHeight * pdf[i][k][m].height[2]

\* ------------------------------------------------------------------ C20
\* C20: the band drawn for the k-th slice is as wide as the raster and as
\* high as the slice and holds the source rows sourceYOffsetPx ..
\* sourceYOffsetPx + heightPx - 1 in order; after a completed loop every
\* source row is in exactly one band.
C20_BandIsSliceRegion ==
    \A i \in Invocations :
        /\ \A k \in 1..Len(bands[i]) :
              /\ bands[i][k].width = canvas[i].width
              /\ bands[i][k].height = slices[i][k].heightPx
              /\ bands[i][k].rows =
                    [r \in 1..slices[i][k].heightPx |->
                        slices[i][k].sourceYOffsetPx + r - 1]
        /\ LoopCompleted(i) =>
              \A row \in 0..(canvas[i].height - 1) :
                 Cardinality({<<k, r>> \in (1..Len(bands[i])) \X (1..canvas[i].height) :
                                 /\ r <= Len(bands[i][k].rows)
                                 /\ bands[i][k].rows[r] = row}) = 1

\* both bands of the tall raster have been drawn and the loop has completed
C20_Witness ==
    \E i \in Invocations :
        /\ LoopCompleted(i)
        /\ canvas[i].height = TallHeight
        /\ Len(bands[i]) = 2
        /\ bands[i][2].rows = <<TallHeight - 1>>

\* ------------------------------------------------------------------ C21
\* C21: from the moment html2canvas has resolved, no step of the export, on
\* the way to pdf.save or to the catch block, changes the captured canvas: it
\* keeps its width, its height and its pixel rows, which stay the rows
\* 0..height-1 as captured.
C21_RasterNeverModified ==
    /\ [][\A i \in Invocations : resolved[i] => canvas'[i] = canvas[i]]_vars
    /\ [](\A i \in Invocations :
            resolved[i] =>
               /\ Len(canvas[i].rows) = canvas[i].height
               /\ \A k \in 1..canvas[i].height : canvas[i].rows[k] = k - 1)

\* one export saved the three bands cut from its raster, the other failed in
\* addImage after its second band was drawn; both rasters are as captured
C21_Witness ==
    \E i, j \in Invocations :
        /\ pc[i] = "done" /\ saveCalls[i] = 1 /\ Len(bands[i]) = 3
        /\ canvas[i].rows = <<0, 1, 2>>
        /\ pc[j] = "done" /\ thrown[j] = "addImage" /\ Len(bands[j]) = 2
        /\ canvas[j].rows = <<0, 1, 2, 3>>

\* ------------------------------------------------------------------ C22
\* the band of the last slice of invocation i is on its page: every slice
\* cut has its band placed and the last one ends at the raster height
LastBandPlaced(i) ==
    /\ slices[i] # <<>>
    /\ Placed(i) = Len(slices[i])
    /\ slices[i][Len(slices[i])].sourceYOffsetPx
          + slices[i][Len(slices[i])].heightPx >= canvas[i].height

\* C22 as stated: once the band of the last slice is placed the document is
\* not changed again, and a placement on it fails instead of changing it.
C22_PlacementRejectedAfterLast ==
    /\ [][\A i \in Invocations : LastBandPlaced(i) => pdf'[i] = pdf[i]]_vars
    /\ [](\A i \in Invocations :
            LastBandPlaced(i) => addImage(pdf[i], Image(i)) = pdf[i])

\* C22 amended: once the band of the last slice is placed, no step of the
\* export appends a page or places a band (the loop is left and only pdf.save
\* follows), so the saved document is the document as the last placement
\* left it, with one page per slice.
C22_NoPlacementAfterLast ==
    /\ [][\A i \in Invocations : LastBandPlaced(i) => pdf'[i] = pdf[i]]_vars
    /\ [](\A i \in Invocations : \A d \in 1..Len(saved[i]) :
            slices[i] # <<>> =>
               /\ saved[i][d] = pdf[i]
               /\ Len(saved[i][d]) = Len(slices[i]))

\* the last of three bands was placed, yPos was advanced without a page being
\* added, and the three-page document was saved
C22_Witness ==
    \E i \in Invocations :
        /\ LastBandPlaced(i) /\ pc[i] = "done"
        /\ Len(slices[i]) = 3 /\ Len(pdf[i]) = 3
        /\ saved[i] = <<pdf[i]>>

\* ------------------------------------------------------------------ C23
\* the positions at which the code of invocation i is not executing: before
\* the click, at the await of html2canvas, and after the handler returned
Yielded(i) == pc[i] \in {"idle", "await", "done"}

\* C23: a step of one invocation is taken only while every other invocation
\* is not started, is waiting at the await of html2canvas, or has returned;
\* so at most one invocation is ever past its capture and not yet returned,
\* and its steps from geometry to the removal of the class follow each other
\* with no step of another invocation between them.
C23_InterleaveOnlyAtCapture ==
    /\ [][\A i, j \in Invocations :
             (i # j /\ pc'[j] # pc[j]) => Yielded(i)]_vars
    /\ [](Cardinality({i \in Invocations : ~Yielded(i)}) <= 1)

\* one export has placed its second band while the other, started before it
\* finished, is still waiting for its capture
C23_Witness ==
    \E i, j \in Invocations :
        /\ pc[i] = "await" /\ added[i] = 1
        /\ pc[j] = "addImage" /\ Len(bands[j]) = 2 /\ Placed(j) = 1

\* ------------------------------------------------------------------ C24
\* the pixel rows a document shows, image after image
DocRows(doc) ==
    LET images == DocImages(doc)
        rowsFrom[m \in 1..(Len(images) + 1)] ==
            IF m > Len(images) THEN <<>> ELSE images[m].rows \o rowsFrom[m + 1]
    IN  rowsFrom[1]

\* C24: every document handed to pdf.save holds exactly the bands its own
\* invocation drew, and their rows are the rows of the canvas that invocation
\* captured, each once and in order; and when no invocation is in progress
\* the exporting class is off.
C24_NoStateOutlivesInvocation ==
    /\ \A i \in Invocations : \A d \in 1..Len(saved[i]) :
          /\ Len(DocImages(saved[i][d])) = Len(bands[i])
          /\ \A m \in 1..Len(bands[i]) :
                DocImages(saved[i][d])[m].rows = bands[i][m].rows
          /\ DocRows(saved[i][d]) = canvas[i].rows
    /\ (\A i \in Invocations : pc[i] \in {"idle", "done"}) => ~exporting

\* two exports of different rasters have both saved and returned, and the
\* class is off
C24_Witness ==
    \E i, j \in Invocations :
        /\ pc[i] = "done" /\ pc[j] = "done"
        /\ Len(saved[i]) = 1 /\ Len(saved[j]) = 1
        /\ canvas[i].height = 2 /\ canvas[j].height = 3
        /\ canvas[i].width = 1 /\ canvas[j].width = 1
        /\ ~exporting

\* ------------------------------------------------------------------ C25
\* C25: the exporting class is on whenever an invocation is about to call
\* html2canvas or waits for it, is about to draw a band, to place it or to
\* call pdf.save; html2canvas is called only after the class was added, and
\* the class is removed only after pdf.save was called or an error was logged.
C25_StepsUnderIndicator ==
    \A i \in Invocations :
        /\ pc[i] \in {"capture", "await", "draw", "addImage", "save"} => exporting
        /\ captures[i] > 0 => added[i] > 0
        /\ removed[i] > 0 => (saveCalls[i] > 0 \/ logged[i])

\* ------------------------------------------------------------------ C26
\* no fetchData call of the Events page is waiting for a response
EventsSettled ==
    \A c \in 1..MaxCalls : EventsCalls[c].pc \in {"idle", "done", "failed"}

\* C26: on the Events page, with every fetchData call completed, the page
\* number is at least 1 and at most max(1, ceil(filteredEvents.length / 6)).
C26_PageWithinPageCount ==
    EventsSettled =>
        /\ Events.page >= 1
        /\ \/ Events.page = 1
           \/ (Events.page - 1) * 6 < Len(Events.filteredEvents)

\* ------------------------------------------------------------------ C28
\* C28: on the Events page, once every fetchData call has completed (none
\* was rejected), the events listed and the ticket overview are the ones the
\* backend holds for the selected year.
C28_SettledShowsSelectedYear ==
    (/\ EventsCalls[1].pc # "idle"
     /\ \A c \in 1..MaxCalls : EventsCalls[c].pc \in {"idle", "done"})
        => /\ Events.events = EventsData(Events.selectedYear)
           /\ Events.ticketsMonthlyOverview.seriesData
                 = MonthlyTicketSales(Events.selectedYear).tickets
           /\ Events.ticketsMonthlyOverview.profit
                 = MonthlyTicketSales(Events.selectedYear).profit
           /\ \A m \in 1..12 :
                 Events.ticketsMonthlyOverview.xAxisData[m][1] = Events.selectedYear

\* ------------------------------------------------------------------ C27
\* C27: on the Attendees page, whenever the events list is not empty,
\* selectedEvent is an index of it: 0 <= selectedEvent < events.length.
C27_SelectedEventValid ==
    Attendees.events # <<>> =>
        /\ 0 <= Attendees.selectedEvent
        /\ Attendees.selectedEvent < Len(Attendees.events)

\* ------------------------------------------------------- C29
\* C29: login and register return true only if the user is authenticated
\* afterwards: whenever handleSubmit got true from either of them, the user
\* of the auth state was non-null at that moment.
C29_TrueOnlyIfAuthenticated ==
    lastSubmit.success = "true" => lastSubmit.user # Null

\* ------------------------------------------------------- C30
\* C30: PrivateRoute renders the Outlet only after a checkAuthStatus call of
\* its own has settled and with a non-null user; while its check is pending
\* it renders nothing; once the check has settled it never stays mounted
\* with a null user (it has redirected to /auth); and a protected path is
\* never shown without a mounted PrivateRoute.
C30_OutletOnlyForCheckedUser ==
    /\ PrivateRoute.rendered = "Outlet" =>
          /\ PrivateRoute.mounted
          /\ PrivateRoute.isAuthChecked
          /\ PrivateRoute.checkSettled
          /\ AuthProvider.user # Null
          /\ location = "/dashboard"
    /\ (PrivateRoute.mounted /\ ~PrivateRoute.checkSettled) =>
          PrivateRoute.rendered = "null"
    /\ (PrivateRoute.mounted /\ PrivateRoute.checkSettled) =>
          /\ AuthProvider.user # Null
          /\ PrivateRoute.rendered = "Outlet"
    /\ location = "/dashboard" <=> PrivateRoute.mounted

\* the Outlet is shown after a sign-in whose handleSubmit returned true, the
\* check of the PrivateRoute mounted by its navigate having settled
C30_Witness ==
    /\ PrivateRoute.rendered = "Outlet"
    /\ PrivateRoute.checkSettled
    /\ lastSubmit.success = "true"
    /\ AuthProvider.user = User

====
